---- MODULE Spec2Model ----
(***************************************************************************)
(* The pre-execution security gate of auto-build/security.py.              *)
(*                                                                         *)
(* A command string is a sequence of lexemes.  Every shell metacharacter   *)
(* and punctuation mark (space, ; & | ' " \ / - =) is a lexeme of its own; *)
(* a word lexeme ("rm", "old", "commit") stands for a maximal run of       *)
(* letters and digits.  A token produced by the tokenizer is again a       *)
(* sequence of lexemes, so "/usr/bin/rm" is <<"/","usr","/","bin","/",     *)
(* "rm">> and the flag "-rf" is <<"-","rf">>.                              *)
(***************************************************************************)
EXTENDS Integers, Sequences, FiniteSets, TLC

VARIABLES
    command,              \* the raw command string handed to the gate
    budget,               \* calls the environment may still make
    _cached_profile,      \* security.py:37
    _cached_project_dir,  \* security.py:38
    builds,               \* profiles the builder has returned so far
    call,                 \* the last gate call: its inputs, trace and verdict
    hist,                 \* resolve / reset calls made so far, oldest first
    threads               \* concurrent callers of get_security_profile

vars == <<command, budget, _cached_profile, _cached_project_dir, builds,
          call, hist, threads>>

None == [none |-> TRUE]

(***************************************************************************)
(* Strings                                                                 *)
(***************************************************************************)
Whitespace == {" "}
Quotes == {"'", "\""}
Escape == {"\\"}
EscapedQuotes == {"\""}

RECURSIVE SpaceRun(_, _)
\* Length of the run of whitespace that starts at position i (regex \s*).
SpaceRun(s, i) ==
    IF i <= Len(s) /\ s[i] \in Whitespace THEN 1 + SpaceRun(s, i + 1) ELSE 0

RECURSIVE LStrip(_)
LStrip(s) ==
    IF s # <<>> /\ Head(s) \in Whitespace THEN LStrip(Tail(s)) ELSE s

RECURSIVE RStrip(_)
RStrip(s) ==
    IF s # <<>> /\ s[Len(s)] \in Whitespace
    THEN RStrip(SubSeq(s, 1, Len(s) - 1)) ELSE s

\* str.strip()
Strip(s) == RStrip(LStrip(s))

\* str.startswith(c) for a one-character prefix c
StartsWith(s, c) == s # <<>> /\ s[1] = c

\* c in s
Contains(s, c) == \E i \in 1..Len(s) : s[i] = c

RECURSIVE LastIndexOf(_, _, _)
\* str.rfind(c) over s[1..i], 0 when absent
LastIndexOf(s, c, i) ==
    IF i = 0 THEN 0
    ELSE IF s[i] = c THEN i ELSE LastIndexOf(s, c, i - 1)

\* os.path.basename (posixpath): what follows the last "/"
basename(p) == SubSeq(p, LastIndexOf(p, "/", Len(p)) + 1, Len(p))

(***************************************************************************)
(* Regular expressions of the segmenter.  A match attempt at position i    *)
(* yields the position just after the match, or 0 when the pattern does    *)
(* not match at i.                                                         *)
(***************************************************************************)
\* r"\s*(?:&&|\|\|)\s*"
MatchChainOperator(s, i) ==
    LET j == i + SpaceRun(s, i) IN
    IF j + 1 <= Len(s)
       /\ (   (s[j] = "&" /\ s[j + 1] = "&")
           \/ (s[j] = "|" /\ s[j + 1] = "|"))
    THEN j + 2 + SpaceRun(s, j + 2)
    ELSE 0

\* r'(?<!["\'])\s*;\s*(?!["\'])': the look-behind is tested where the match
\* starts, the look-ahead where it ends; the trailing \s* gives back one
\* space when the character after the run is a quote.
MatchSemicolon(s, i) ==
    LET j == i + SpaceRun(s, i)
        m == SpaceRun(s, j + 1)
        e == j + 1 + m
    IN  IF (i > 1 /\ s[i - 1] \in Quotes) \/ j > Len(s) \/ s[j] # ";"
        THEN 0
        ELSE IF e <= Len(s) /\ s[e] \in Quotes
             THEN (IF m >= 1 THEN e - 1 ELSE 0)
             ELSE e

MatchAt(pattern, s, i) ==
    IF pattern = "chain" THEN MatchChainOperator(s, i) ELSE MatchSemicolon(s, i)

RECURSIVE re_split(_, _, _, _)
\* re.split(pattern, s): the pieces between the leftmost non-overlapping
\* matches; start is where the current piece begins, i the scan position.
re_split(pattern, s, start, i) ==
    IF i > Len(s) THEN <<SubSeq(s, start, Len(s))>>
    ELSE LET e == MatchAt(pattern, s, i) IN
         IF e = 0 THEN re_split(pattern, s, start, i + 1)
         ELSE <<SubSeq(s, start, i - 1)>> \o re_split(pattern, s, e, e)

(***************************************************************************)
(* shlex.split(s): POSIX mode, whitespace_split, no comment characters.    *)
(* The result is [ok, tokens]; ok = FALSE is the ValueError of an unclosed *)
(* quotation or a trailing escape character.                               *)
(***************************************************************************)
ValueError == [ok |-> FALSE, tokens |-> <<>>]

RECURSIVE read_token(_, _, _, _, _, _, _)
read_token(s, i, state, escapedstate, token, quoted, out) ==
    IF i > Len(s)
    THEN IF state \in Quotes \/ state \in Escape
         THEN ValueError
         ELSE [ok |-> TRUE,
               tokens |-> IF token # <<>> \/ quoted
                          THEN Append(out, token) ELSE out]
    ELSE
    LET c == s[i] IN
    CASE state = " " ->
            IF c \in Whitespace
            THEN read_token(s, i + 1, " ", escapedstate, <<>>, FALSE, out)
            ELSE IF c \in Escape
            THEN read_token(s, i + 1, c, "a", <<>>, FALSE, out)
            ELSE IF c \in Quotes
            THEN read_token(s, i + 1, c, escapedstate, <<>>, FALSE, out)
            ELSE read_token(s, i + 1, "a", escapedstate, <<c>>, FALSE, out)
      [] state \in Quotes ->
            IF c = state
            THEN read_token(s, i + 1, "a", escapedstate, token, TRUE, out)
            ELSE IF c \in Escape /\ state \in EscapedQuotes
            THEN read_token(s, i + 1, c, state, token, TRUE, out)
            ELSE read_token(s, i + 1, state, escapedstate,
                            Append(token, c), TRUE, out)
      [] state \in Escape ->
            LET kept == IF escapedstate \in Quotes /\ c # state
                           /\ c # escapedstate
                        THEN Append(token, state) ELSE token
            IN  read_token(s, i + 1, escapedstate, escapedstate,
                           Append(kept, c), quoted, out)
      [] OTHER ->  \* state = "a": inside a word
            IF c \in Whitespace
            THEN (IF token # <<>> \/ quoted
                  THEN read_token(s, i + 1, " ", escapedstate, <<>>, FALSE,
                                  Append(out, token))
                  ELSE read_token(s, i + 1, " ", escapedstate, token, quoted,
                                  out))
            ELSE IF c \in Quotes
            THEN read_token(s, i + 1, c, escapedstate, token, quoted, out)
            ELSE IF c \in Escape
            THEN read_token(s, i + 1, c, "a", token, quoted, out)
            ELSE read_token(s, i + 1, "a", escapedstate, Append(token, c),
                            quoted, out)

shlex_split(s) == read_token(s, 1, " ", " ", <<>>, FALSE, <<>>)

(***************************************************************************)
(* Command parsing                                                         *)
(***************************************************************************)
\* "if sub: result.append(sub)"
NonEmpty(sub) == IF sub # <<>> THEN <<sub>> ELSE <<>>

RECURSIVE StripNonEmpty(_, _)
\* the inner loop of split_command_segments: strip each piece, drop empties
StripNonEmpty(pieces, k) ==
    IF k > Len(pieces) THEN <<>>
    ELSE NonEmpty(Strip(pieces[k])) \o StripNonEmpty(pieces, k + 1)

RECURSIVE SplitEach(_, _)
SplitEach(segments, k) ==
    IF k > Len(segments) THEN <<>>
    ELSE StripNonEmpty(re_split("semicolon", segments[k], 1, 1), 1)
         \o SplitEach(segments, k + 1)

split_command_segments(command_string) ==
    SplitEach(re_split("chain", command_string, 1, 1), 1)

OperatorTokens == {<<"|">>, <<"|", "|">>, <<"&", "&">>, <<"&">>}

ShellKeywords ==
    {<<"if">>, <<"then">>, <<"else">>, <<"elif">>, <<"fi">>,
     <<"for">>, <<"while">>, <<"until">>, <<"do">>, <<"done">>,
     <<"case">>, <<"esac">>, <<"in">>,
     <<"!">>, <<"{">>, <<"}">>, <<"(">>, <<")">>,
     <<"function">>}

RedirectionTokens ==
    {<<"<", "<">>, <<"<", "<", "<">>, <<">", ">">>, <<">">>, <<"<">>,
     <<"2", ">">>, <<"2", ">", "&", "1">>, <<"&", ">">>}

RECURSIVE WalkTokens(_, _, _, _)
\* the token loop of extract_commands (security.py:129-161)
WalkTokens(tokens, k, expect_command, commands) ==
    IF k > Len(tokens) THEN commands
    ELSE LET token == tokens[k] IN
         IF token \in OperatorTokens
         THEN WalkTokens(tokens, k + 1, TRUE, commands)
         ELSE IF \/ token \in ShellKeywords
                 \/ StartsWith(token, "-")
                 \/ (Contains(token, "=") /\ ~StartsWith(token, "="))
                 \/ token \in RedirectionTokens
         THEN WalkTokens(tokens, k + 1, expect_command, commands)
         ELSE IF expect_command
         THEN WalkTokens(tokens, k + 1, FALSE,
                         Append(commands, basename(token)))
         ELSE WalkTokens(tokens, k + 1, expect_command, commands)

RECURSIVE ExtractFrom(_, _, _)
RECURSIVE ExtractLexed(_, _, _, _)

\* one segment of extract_commands, stripped (security.py:112-117)
ExtractSegment(segments, k, commands, segment) ==
    IF segment = <<>> THEN ExtractFrom(segments, k + 1, commands)
    ELSE ExtractLexed(segments, k, commands, shlex_split(segment))

\* one segment of extract_commands, tokenized (security.py:118-161)
ExtractLexed(segments, k, commands, lexed) ==
    IF ~lexed.ok THEN <<>>
    ELSE ExtractFrom(segments, k + 1,
                     WalkTokens(lexed.tokens, 1, TRUE, commands))

\* the segment loop of extract_commands (security.py:111-163)
ExtractFrom(segments, k, commands) ==
    IF k > Len(segments) THEN commands
    ELSE ExtractSegment(segments, k, commands, Strip(segments[k]))

extract_commands(command_string) ==
    ExtractFrom(re_split("semicolon", command_string, 1, 1), 1, <<>>)

(***************************************************************************)
(* Command strings the gate is driven with                                 *)
(***************************************************************************)
MaxChain == 1

\* simple invocations, the last one an unclosed quotation
Invocations ==
    {<<"ls">>, <<"npm">>, <<"rm", " ", "old">>, <<"rm", " ", "/">>,
     <<"git", " ", "commit">>, <<"git", " ", "status">>, <<"'">>}

Separators ==
    {<<" ", "&", "&", " ">>, <<" ", "|", "|", " ">>, <<";">>,
     <<" ", ";", " ">>, <<" ", "|", " ">>}

RECURSIVE Chains(_)
\* invocations joined by at most n separators
Chains(n) ==
    IF n = 0 THEN Invocations
    ELSE LET shorter == Chains(n - 1) IN
         shorter \cup {c \o sep \o inv :
                          c \in shorter, sep \in Separators,
                          inv \in Invocations}

Commands == {<<>>} \cup Chains(MaxChain)

RECURSIVE SeqRange(_, _)
SeqRange(xs, k) == IF k > Len(xs) THEN {} ELSE {xs[k]} \cup SeqRange(xs, k + 1)

\* every text the gate parses: the command strings and their segments
Texts ==
    Commands \cup UNION {SeqRange(split_command_segments(c), 1) : c \in Commands}

\* shlex.split, extract_commands and split_command_segments tabulated over
\* Texts; each is a pure function of the text
Lexed == [s \in Texts |-> shlex_split(s)]

Extracted == [s \in Texts |-> extract_commands(s)]

Segmented == [c \in Commands |-> split_command_segments(c)]

tokens_of(s) == IF s \in Texts THEN Lexed[s] ELSE shlex_split(s)

commands_of(s) == IF s \in Texts THEN Extracted[s] ELSE extract_commands(s)

segments_of(c) ==
    IF c \in Commands THEN Segmented[c] ELSE split_command_segments(c)

(***************************************************************************)
(* Project paths.  A path is its sequence of components; it is absolute    *)
(* when the first component is "/".  Path.resolve() makes a relative path  *)
(* absolute against the process working directory and folds "." and "..".  *)
(***************************************************************************)
ProcessCwd == <<"/", "proj">>

RECURSIVE Normalize(_, _)
Normalize(parts, acc) ==
    IF parts = <<>> THEN acc
    ELSE LET c == Head(parts) IN
         IF c = "." THEN Normalize(Tail(parts), acc)
         ELSE IF c = ".."
         THEN Normalize(Tail(parts),
                        IF Len(acc) > 1 THEN SubSeq(acc, 1, Len(acc) - 1)
                        ELSE acc)
         ELSE Normalize(Tail(parts), Append(acc, c))

\* Path(project_dir).resolve()
resolve(path) ==
    IF StartsWith(path, "/") THEN Normalize(Tail(path), <<"/">>)
    ELSE Normalize(path, ProcessCwd)

RawPaths ==
    {<<"/", "proj", "a">>, <<"..", "proj", "a">>, <<"/", "proj", "b">>}

(***************************************************************************)
(* The project analyzer (project_analyzer.py, consumed at its interface).  *)
(* A SecurityProfile carries its three tiers; id tells instances apart:    *)
(* the builder numbers the profiles it returns, 0 is a profile that no     *)
(* builder call returned.                                                  *)
(***************************************************************************)
BASE_COMMANDS == {<<"ls">>, <<"git">>}

\* SecurityProfile(): every tier empty
SecurityProfile == [base_commands |-> {}, stack_commands |-> {},
                    custom_commands |-> {}, id |-> 0]

\* get_or_create_profile(project_dir, spec_dir) when it returns: the n-th
\* profile built.  /proj/a is a project whose stack brings rm, chmod, dropdb,
\* tee and echo, any other project declares npm as a custom command.
get_or_create_profile(project_dir, n) ==
    [base_commands   |-> BASE_COMMANDS,
     stack_commands  |-> IF project_dir = <<"/", "proj", "a">>
                         THEN {<<"rm">>, <<"chmod">>, <<"dropdb">>,
                               <<"tee">>, <<"echo">>}
                         ELSE {},
     custom_commands |-> IF project_dir = <<"/", "proj", "a">>
                         THEN {} ELSE {<<"npm">>},
     id              |-> n]

\* SecurityProfile.get_all_allowed_commands()
get_all_allowed_commands(profile) ==
    profile.base_commands \cup profile.stack_commands
        \cup profile.custom_commands

NoReason == [kind |-> "none"]

\* is_command_allowed(cmd, profile)
is_command_allowed(cmd, profile) ==
    IF cmd \in get_all_allowed_commands(profile)
    THEN [ok |-> TRUE, reason |-> NoReason]
    ELSE [ok |-> FALSE, reason |-> [kind |-> "not_allowed", cmd |-> cmd]]

(***************************************************************************)
(* Profile cache                                                           *)
(***************************************************************************)
\* get_security_profile run without interleaving, from the cache (cp, cd)
\* with n profiles built so far; builder says whether get_or_create_profile
\* returns or raises should it be invoked.
\* get_security_profile with line 54 left out: the path is compared and
\* stored as the caller wrote it
get_security_profile_unresolved(raw_dir, cp, cd, n, builder) ==
    IF cp # None /\ cd = raw_dir
    THEN [raised |-> FALSE, built |-> FALSE, profile |-> cp,
          project_dir |-> raw_dir, cp |-> cp, cd |-> cd, builds |-> n]
    ELSE IF builder = "raises"
    THEN [raised |-> TRUE, built |-> TRUE, profile |-> None,
          project_dir |-> raw_dir, cp |-> cp, cd |-> cd, builds |-> n]
    ELSE [raised |-> FALSE, built |-> TRUE,
          profile |-> get_or_create_profile(raw_dir, n + 1),
          project_dir |-> raw_dir,
          cp |-> get_or_create_profile(raw_dir, n + 1), cd |-> raw_dir,
          builds |-> n + 1]

get_security_profile(raw_dir, cp, cd, n, builder) ==
    LET project_dir == resolve(raw_dir) IN
    IF cp # None /\ cd = project_dir
    THEN [raised |-> FALSE, built |-> FALSE, profile |-> cp,
          project_dir |-> project_dir, cp |-> cp, cd |-> cd, builds |-> n]
    ELSE IF builder = "raises"
    THEN [raised |-> TRUE, built |-> TRUE, profile |-> None,
          project_dir |-> project_dir, cp |-> cp, cd |-> cd, builds |-> n]
    ELSE LET built == get_or_create_profile(project_dir, n + 1) IN
         [raised |-> FALSE, built |-> TRUE, profile |-> built,
          project_dir |-> project_dir, cp |-> built, cd |-> project_dir,
          builds |-> n + 1]

(***************************************************************************)
(* Deep validators.  A validator returns [ok, reason, raised, events]:     *)
(* raised is an exception leaving the validator, events are the calls it   *)
(* made to the secret scanner.                                             *)
(***************************************************************************)
Accept == [ok |-> TRUE, reason |-> NoReason, raised |-> FALSE,
           events |-> <<>>]

Reject(reason) == [ok |-> FALSE, reason |-> reason, raised |-> FALSE,
                   events |-> <<>>]

\* dangerous_patterns with the '$' anchors left out: every target that
\* begins like a listed one is refused
IsDangerousRmTarget_unanchored(token) ==
    \/ token # <<>> /\ token[1] \in {"/", "~", "*"}
    \/ Len(token) >= 2 /\ SubSeq(token, 1, 2) = <<".", ".">>

\* dangerous_patterns of validate_rm_command, matched with re.match
IsDangerousRmTarget(token) ==
    \/ token \in {<<"/">>, <<".", ".">>, <<"~">>, <<"*">>, <<"/", "*">>}
    \/ (Len(token) >= 3 /\ SubSeq(token, 1, 3) = <<".", ".", "/">>)
    \/ token \in {<<"/", "home">>, <<"/", "usr">>, <<"/", "etc">>,
                  <<"/", "var">>, <<"/", "bin">>, <<"/", "lib">>,
                  <<"/", "opt">>}

RECURSIVE ScanRmTargets(_, _)
ScanRmTargets(tokens, k) ==
    IF k > Len(tokens) THEN Accept
    ELSE IF StartsWith(tokens[k], "-") THEN ScanRmTargets(tokens, k + 1)
    ELSE IF IsDangerousRmTarget(tokens[k])
    THEN Reject([kind |-> "rm_target", target |-> tokens[k]])
    ELSE ScanRmTargets(tokens, k + 1)

\* validate_rm_command once the segment is tokenized (security.py:293-326)
validate_rm_tokens(lexed) ==
    IF ~lexed.ok THEN Reject([kind |-> "rm_parse"])
    ELSE IF lexed.tokens = <<>> THEN Reject([kind |-> "rm_empty"])
    ELSE ScanRmTargets(lexed.tokens, 2)

validate_rm_command(command_string) ==
    validate_rm_tokens(tokens_of(command_string))

(***************************************************************************)
(* The secret scanner (scan_secrets, consumed at its interface).  One      *)
(* behaviour of the scanner during a gate call: whether the import works,  *)
(* and whether get_staged_files and scan_files return or raise, and what.  *)
(***************************************************************************)
MaxMatches == 2

Files == {"a.env", "b.py"}

StagedFiles == <<"a.env", "b.py">>

Matches == UNION {[1..n -> Files] : n \in 0..MaxMatches}

ScannerBehaviours ==
    {[import |-> "ImportError", list |-> "unused", staged |-> <<>>,
      scan |-> "unused", matches |-> <<>>],
     [import |-> "ok", list |-> "raises", staged |-> <<>>,
      scan |-> "unused", matches |-> <<>>],
     [import |-> "ok", list |-> "returns", staged |-> <<>>,
      scan |-> "unused", matches |-> <<>>],
     [import |-> "ok", list |-> "returns", staged |-> StagedFiles,
      scan |-> "raises", matches |-> <<>>]}
    \cup {[import |-> "ok", list |-> "returns", staged |-> StagedFiles,
           scan |-> "returns", matches |-> m] : m \in Matches}

ScannerAbsent == [import |-> "ImportError", list |-> "unused",
                  staged |-> <<>>, scan |-> "unused", matches |-> <<>>]

RECURSIVE files_with_secrets(_, _, _)
\* the keys of files_with_secrets, in the order the dict received them
files_with_secrets(matches, k, files) ==
    IF k > Len(matches) THEN files
    ELSE files_with_secrets(matches, k + 1,
            IF \E j \in 1..Len(files) : files[j] = matches[k]
            THEN files ELSE Append(files, matches[k]))

\* validate_git_commit with the subcommand test of line 365 left out: every
\* git invocation is scanned
validate_git_tokens_any_subcommand(lexed, scanner) ==
    IF ~lexed.ok THEN Reject([kind |-> "git_parse"])
    ELSE IF lexed.tokens = <<>> \/ lexed.tokens[1] # <<"git">> THEN Accept
    ELSE IF scanner.import = "ImportError"
    THEN [Accept EXCEPT !.events = <<"import">>]
    ELSE IF scanner.list = "raises"
    THEN [ok |-> FALSE, reason |-> NoReason, raised |-> TRUE,
          events |-> <<"import", "get_staged_files">>]
    ELSE IF scanner.staged = <<>>
    THEN [Accept EXCEPT !.events = <<"import", "get_staged_files">>]
    ELSE IF scanner.scan = "raises"
    THEN [ok |-> FALSE, reason |-> NoReason, raised |-> TRUE,
          events |-> <<"import", "get_staged_files", "scan_files">>]
    ELSE IF scanner.matches = <<>>
    THEN [Accept EXCEPT
            !.events = <<"import", "get_staged_files", "scan_files">>]
    ELSE [ok |-> FALSE,
          reason |-> [kind |-> "secrets",
                      files |-> files_with_secrets(scanner.matches, 1, <<>>)],
          raised |-> FALSE,
          events |-> <<"import", "get_staged_files", "scan_files">>]

\* validate_git_commit once the segment is tokenized (security.py:357-429)
validate_git_tokens(lexed, scanner) ==
    LET tokens == lexed.tokens IN
    IF ~lexed.ok THEN Reject([kind |-> "git_parse"])
    ELSE IF tokens = <<>> \/ tokens[1] # <<"git">> THEN Accept
    ELSE IF Len(tokens) < 2 \/ tokens[2] # <<"commit">> THEN Accept
    ELSE IF scanner.import = "ImportError"
    THEN [Accept EXCEPT !.events = <<"import">>]
    ELSE IF scanner.list = "raises"
    THEN [ok |-> FALSE, reason |-> NoReason, raised |-> TRUE,
          events |-> <<"import", "get_staged_files">>]
    ELSE IF scanner.staged = <<>>
    THEN [Accept EXCEPT !.events = <<"import", "get_staged_files">>]
    ELSE IF scanner.scan = "raises"
    THEN [ok |-> FALSE, reason |-> NoReason, raised |-> TRUE,
          events |-> <<"import", "get_staged_files", "scan_files">>]
    ELSE IF scanner.matches = <<>>
    THEN [Accept EXCEPT
            !.events = <<"import", "get_staged_files", "scan_files">>]
    ELSE [ok |-> FALSE,
          reason |-> [kind |-> "secrets",
                      files |-> files_with_secrets(scanner.matches, 1, <<>>)],
          raised |-> FALSE,
          events |-> <<"import", "get_staged_files", "scan_files">>]

validate_git_commit(command_string, scanner) ==
    validate_git_tokens(tokens_of(command_string), scanner)

(***************************************************************************)
(* The SQL validators (psql, mysql, mariadb).  SQL text is a sequence of   *)
(* lexemes in which a word lexeme is a maximal run of \w characters; an    *)
(* option letter that SQL is attached to is a lexeme of its own.           *)
(***************************************************************************)
\* \w+ of one lexeme
IsWord(x) ==
    x \notin Whitespace \cup Quotes \cup Escape \cup {";", "=", "-", "*", "/"}

\* str.upper() of one lexeme
upper_lexeme(x) ==
    IF x \in {"drop", "Drop"} THEN "DROP"
    ELSE IF x \in {"table", "Table"} THEN "TABLE"
    ELSE IF x = "tables" THEN "TABLES"
    ELSE IF x = "truncate" THEN "TRUNCATE"
    ELSE IF x = "delete" THEN "DELETE"
    ELSE IF x = "from" THEN "FROM"
    ELSE IF x = "where" THEN "WHERE"
    ELSE IF x = "select" THEN "SELECT"
    ELSE IF x = "users" THEN "USERS"
    ELSE IF x = "id" THEN "ID"
    ELSE x

upper(s) == [i \in 1..Len(s) |-> upper_lexeme(s[i])]

\* the patterns of DESTRUCTIVE_SQL_PATTERNS tried at lexeme i of the
\* upper-cased text
MatchDestructive(u, i) ==
    /\ IsWord(u[i])
    /\ (i = 1 \/ ~IsWord(u[i - 1]))
    /\ \E j \in {i + 1 + SpaceRun(u, i + 1)} :
         \/ /\ u[i] = "DROP"
            /\ j > i + 1 /\ j <= Len(u)
            /\ u[j] \in {"DATABASE", "SCHEMA", "TABLE", "INDEX", "VIEW",
                         "FUNCTION", "PROCEDURE", "TRIGGER"}
         \/ /\ u[i] = "TRUNCATE"
            /\ j > i + 1 /\ j <= Len(u)
            /\ IsWord(u[j])
         \/ /\ u[i] = "DELETE"
            /\ j > i + 1 /\ j <= Len(u)
            /\ u[j] = "FROM"
            /\ \E k \in {j + 1 + SpaceRun(u, j + 1)} :
                 /\ k > j + 1 /\ k <= Len(u)
                 /\ IsWord(u[k])
                 /\ \E m \in {k + 1 + SpaceRun(u, k + 1)} :
                      m > Len(u) \/ u[m] = ";"
         \/ /\ u[i] = "DROP"
            /\ j > i + 1 /\ j <= Len(u)
            /\ u[j] = "ALL"
         \/ u[i] = "DESTROY"

_contains_destructive_sql(sql) ==
    \E i \in 1..Len(sql) : MatchDestructive(upper(sql), i)

\* token.startswith("-c") / token.startswith("-e")
StartsWithOption(token, letter) ==
    Len(token) >= 2 /\ token[1] = "-" /\ token[2] = letter

RECURSIVE FindPsqlSql(_, _)
\* the loop of validate_psql_command over enumerate(tokens)
FindPsqlSql(tokens, i) ==
    IF i > Len(tokens) THEN [found |-> FALSE, sql |-> <<>>]
    ELSE IF tokens[i] = <<"-", "c">> /\ i + 1 <= Len(tokens)
    THEN [found |-> TRUE, sql |-> tokens[i + 1]]
    ELSE IF StartsWithOption(tokens[i], "c")
    THEN [found |-> TRUE, sql |-> SubSeq(tokens[i], 3, Len(tokens[i]))]
    ELSE FindPsqlSql(tokens, i + 1)

RECURSIVE FindMysqlSql(_, _)
\* the loop of validate_mysql_command over enumerate(tokens)
FindMysqlSql(tokens, i) ==
    IF i > Len(tokens) THEN [found |-> FALSE, sql |-> <<>>]
    ELSE IF tokens[i] = <<"-", "e">> /\ i + 1 <= Len(tokens)
    THEN [found |-> TRUE, sql |-> tokens[i + 1]]
    ELSE IF StartsWithOption(tokens[i], "e")
    THEN [found |-> TRUE, sql |-> SubSeq(tokens[i], 3, Len(tokens[i]))]
    ELSE IF tokens[i] = <<"-", "-", "execute">> /\ i + 1 <= Len(tokens)
    THEN [found |-> TRUE, sql |-> tokens[i + 1]]
    ELSE FindMysqlSql(tokens, i + 1)

\* validate_psql_command / validate_mysql_command once the segment is
\* tokenized: the two differ in the loop that looks for the SQL
validate_sql(lexed, tool) ==
    IF ~lexed.ok THEN Reject([kind |-> "sql_parse", tool |-> tool])
    ELSE IF lexed.tokens = <<>>
    THEN Reject([kind |-> "sql_empty", tool |-> tool])
    ELSE LET got == IF tool = "psql" THEN FindPsqlSql(lexed.tokens, 1)
                    ELSE FindMysqlSql(lexed.tokens, 1)
         IN  IF got.sql # <<>> /\ _contains_destructive_sql(got.sql)
             THEN Reject([kind |-> "destructive_sql", tool |-> tool])
             ELSE Accept

validate_psql_command(command_string) ==
    validate_sql(tokens_of(command_string), "psql")

validate_mysql_command(command_string) ==
    validate_sql(tokens_of(command_string), "mysql")

(***************************************************************************)
(* validate_dropdb_command.  A database name is a sequence of lexemes in   *)
(* which "_" is a lexeme of its own and every other lexeme is a run of     *)
(* letters and digits.                                                     *)
(***************************************************************************)
\* str.lower() of one lexeme
lower_lexeme(x) ==
    IF x \in {"TEST", "Test"} THEN "test"
    ELSE IF x \in {"DEV", "Dev"} THEN "dev"
    ELSE IF x = "PRODUCTION" THEN "production"
    ELSE x

\* SAFE_DATABASE_PATTERNS searched in db_name.lower(): a first lexeme that
\* begins with a safe prefix, or "_" and a safe suffix at the end
_is_safe_database_name(db_name) ==
    LET db_lower == [i \in 1..Len(db_name) |-> lower_lexeme(db_name[i])]
        n == Len(db_lower)
    IN  \/ n >= 1 /\ db_lower[1] \in
             {"test", "testing", "dev", "devel", "local", "tmp", "temp",
              "scratch", "sandbox", "mock"}
        \/ n >= 2 /\ db_lower[n - 1] = "_" /\ db_lower[n] \in
             {"test", "dev", "local", "tmp", "temp", "mock"}

RECURSIVE FindDbName(_, _, _, _)
\* the loop of validate_dropdb_command over tokens[1:]; <<>> stands for a
\* db_name that is None or empty
FindDbName(tokens, k, skip_next, db_name) ==
    IF k > Len(tokens) THEN db_name
    ELSE IF skip_next THEN FindDbName(tokens, k + 1, FALSE, db_name)
    ELSE IF tokens[k] \in
              {<<"-", "h">>, <<"-", "-", "host">>, <<"-", "p">>,
               <<"-", "-", "port">>, <<"-", "U">>, <<"-", "-", "username">>,
               <<"-", "w">>, <<"-", "-", "no", "-", "password">>,
               <<"-", "W">>, <<"-", "-", "password">>,
               <<"-", "-", "maintenance", "-", "db">>}
    THEN FindDbName(tokens, k + 1, TRUE, db_name)
    ELSE IF StartsWith(tokens[k], "-")
    THEN FindDbName(tokens, k + 1, FALSE, db_name)
    ELSE FindDbName(tokens, k + 1, FALSE, tokens[k])

\* validate_dropdb_command once the segment is tokenized
validate_dropdb_tokens(lexed, db_name) ==
    IF ~lexed.ok THEN Reject([kind |-> "dropdb_parse"])
    ELSE IF lexed.tokens = <<>> THEN Reject([kind |-> "dropdb_empty"])
    ELSE IF db_name = <<>> THEN Reject([kind |-> "dropdb_no_name"])
    ELSE IF _is_safe_database_name(db_name) THEN Accept
    ELSE Reject([kind |-> "dropdb_unsafe", db_name |-> db_name])

validate_dropdb_command(command_string) ==
    validate_dropdb_tokens(tokens_of(command_string),
        FindDbName(tokens_of(command_string).tokens, 2, FALSE, <<>>))

(***************************************************************************)
(* validate_chmod_command.  In a mode, "+" and "," are lexemes of their    *)
(* own, a run of the letters u, g, o, a is one lexeme, and so is a run of  *)
(* digits.                                                                 *)
(***************************************************************************)
safe_modes ==
    {<<"+", "x">>, <<"a", "+", "x">>, <<"u", "+", "x">>, <<"g", "+", "x">>,
     <<"o", "+", "x">>, <<"ug", "+", "x">>, <<"755">>, <<"644">>, <<"700">>,
     <<"600">>, <<"775">>, <<"664">>}

\* re.match(r"^[ugoa]*\+x$", mode)
IsPlusX(mode) ==
    \/ mode = <<"+", "x">>
    \/ /\ Len(mode) = 3 /\ mode[2] = "+" /\ mode[3] = "x"
       /\ mode[1] \in {"u", "g", "o", "a", "ug", "uu", "go", "ugo", "ugoa"}

RECURSIVE ScanChmod(_, _, _, _)
\* the loop of validate_chmod_command over tokens[1:] and the tests that
\* follow it; <<>> stands for a mode that is None
ScanChmod(tokens, k, mode, files) ==
    IF k > Len(tokens)
    THEN IF mode = <<>> THEN Reject([kind |-> "chmod_no_mode"])
         ELSE IF files = 0 THEN Reject([kind |-> "chmod_no_file"])
         ELSE IF mode \notin safe_modes /\ ~IsPlusX(mode)
         THEN Reject([kind |-> "chmod_mode", mode |-> mode])
         ELSE Accept
    ELSE IF tokens[k] \in {<<"-", "R">>, <<"-", "-", "recursive">>}
    THEN ScanChmod(tokens, k + 1, mode, files)
    ELSE IF StartsWith(tokens[k], "-")
    THEN Reject([kind |-> "chmod_flag", flag |-> tokens[k]])
    ELSE IF mode = <<>> THEN ScanChmod(tokens, k + 1, tokens[k], files)
    ELSE ScanChmod(tokens, k + 1, mode, files + 1)

\* validate_chmod_command once the segment is tokenized
validate_chmod_tokens(lexed) ==
    IF ~lexed.ok THEN Reject([kind |-> "chmod_parse"])
    ELSE IF lexed.tokens = <<>> \/ lexed.tokens[1] # <<"chmod">>
    THEN Reject([kind |-> "not_chmod"])
    ELSE ScanChmod(lexed.tokens, 2, <<>>, 0)

validate_chmod_command(command_string) ==
    validate_chmod_tokens(tokens_of(command_string))

\* the keys of VALIDATORS whose commands the gate is driven with
VALIDATORS == {<<"rm">>, <<"git">>, <<"chmod">>, <<"dropdb">>}

\* VALIDATORS[cmd](cmd_segment)
RunValidator(cmd, cmd_segment, scanner) ==
    IF cmd = <<"rm">> THEN validate_rm_command(cmd_segment)
    ELSE IF cmd = <<"chmod">> THEN validate_chmod_command(cmd_segment)
    ELSE IF cmd = <<"dropdb">> THEN validate_dropdb_command(cmd_segment)
    ELSE validate_git_commit(cmd_segment, scanner)

(***************************************************************************)
(* Gate orchestrator.  A gate call ends Allow, Block(reason) or Raise (an  *)
(* exception leaves the entry point).  The log lists, in order, every      *)
(* allowlist check, validator run and scanner call of the evaluation.      *)
(***************************************************************************)
\* x in xs, for a list xs
IsIn(x, xs) == \E j \in 1..Len(xs) : xs[j] = x

RECURSIVE get_command_for_validation(_, _, _)
get_command_for_validation(cmd, segments, k) ==
    IF k > Len(segments) THEN <<>>
    ELSE IF IsIn(cmd, commands_of(segments[k]))
         THEN segments[k]
         ELSE get_command_for_validation(cmd, segments, k + 1)

ScannerEvents(events, k) ==
    [j \in 1..Len(events) |-> [ev |-> "scanner", k |-> k, op |-> events[j]]]

AllowlistEvent(k, cmd, ok) ==
    [ev |-> "allowlist", k |-> k, cmd |-> cmd, ok |-> ok]

ValidatorEvent(k, cmd, cmd_segment) ==
    [ev |-> "validator", k |-> k, cmd |-> cmd, segment |-> cmd_segment]

\* "if not cmd_segment: cmd_segment = command"
SegmentOr(found, command_string) ==
    IF found = <<>> THEN command_string ELSE found

RECURSIVE check_commands(_, _, _, _, _, _, _)
RECURSIVE after_validator(_, _, _, _, _, _, _, _)

\* the validator of commands[k] is run on cmd_segment (security.py:870-871)
run_validator(commands, k, segments, command_string, profile, scanner, log, cmd_segment) ==
    after_validator(commands, k, segments, command_string, profile, scanner,
                    Append(log, ValidatorEvent(k, commands[k], cmd_segment)),
                    RunValidator(commands[k], cmd_segment, scanner))

\* the validator of commands[k] has ended (security.py:871-873)
after_validator(commands, k, segments, command_string, profile, scanner, log, checked) ==
    IF checked.raised
    THEN [outcome |-> "Raise", reason |-> [kind |-> "scanner"],
          log |-> log \o ScannerEvents(checked.events, k)]
    ELSE IF ~checked.ok
    THEN [outcome |-> "Block", reason |-> checked.reason,
          log |-> log \o ScannerEvents(checked.events, k)]
    ELSE check_commands(commands, k + 1, segments, command_string, profile,
                        scanner, log \o ScannerEvents(checked.events, k))

\* the loop with the validator lookup placed ahead of the allowlist check: a
\* command that has a validator goes to it unchecked
check_commands_validator_first(commands, k, segments, command_string, profile, scanner, log) ==
    IF k > Len(commands)
    THEN [outcome |-> "Allow", reason |-> NoReason, log |-> log]
    ELSE IF commands[k] \in VALIDATORS
    THEN run_validator(commands, k, segments, command_string, profile,
                       scanner, log,
                       SegmentOr(get_command_for_validation(commands[k],
                                                            segments, 1),
                                 command_string))
    ELSE IF ~is_command_allowed(commands[k], profile).ok
    THEN [outcome |-> "Block",
          reason |-> is_command_allowed(commands[k], profile).reason,
          log |-> Append(log, AllowlistEvent(k, commands[k], FALSE))]
    ELSE check_commands(commands, k + 1, segments, command_string, profile,
                        scanner,
                        Append(log, AllowlistEvent(k, commands[k], TRUE)))

\* "for cmd in commands" of bash_security_hook and of validate_command
\* (security.py:854-875, 907-922); k is the position of cmd in commands
check_commands(commands, k, segments, command_string, profile, scanner, log) ==
    IF k > Len(commands)
    THEN [outcome |-> "Allow", reason |-> NoReason, log |-> log]
    ELSE IF ~is_command_allowed(commands[k], profile).ok
    THEN [outcome |-> "Block",
          reason |-> is_command_allowed(commands[k], profile).reason,
          log |-> Append(log, AllowlistEvent(k, commands[k], FALSE))]
    ELSE IF commands[k] \in VALIDATORS
    THEN run_validator(commands, k, segments, command_string, profile,
                       scanner,
                       Append(log, AllowlistEvent(k, commands[k], TRUE)),
                       SegmentOr(get_command_for_validation(commands[k],
                                                            segments, 1),
                                 command_string))
    ELSE check_commands(commands, k + 1, segments, command_string, profile,
                        scanner,
                        Append(log, AllowlistEvent(k, commands[k], TRUE)))

\* what a gate call leaves behind: its verdict and log, the profile it
\* checked against, and the outcome of its get_security_profile call
GateResult(verdict, profile, got) ==
    [outcome |-> verdict.outcome, reason |-> verdict.reason,
     log |-> verdict.log, profile |-> profile, got |-> got]

\* the call never reached get_security_profile
NotResolved(cp, cd, n) ==
    [raised |-> FALSE, built |-> FALSE, profile |-> None,
     project_dir |-> None, cp |-> cp, cd |-> cd, builds |-> n]

\* the fallback of security.py:834-835
BaseOnlyProfile == [SecurityProfile EXCEPT !.base_commands = BASE_COMMANDS]

\* an entry point from "commands = extract_commands(command)" on
\* (security.py:838-875, 900-922)
gate_checks(command_string, profile, scanner, got, commands, parse_reason) ==
    IF commands = <<>>
    THEN GateResult([outcome |-> "Block", reason |-> parse_reason,
                     log |-> <<>>], profile, got)
    ELSE GateResult(check_commands(commands, 1,
                                   segments_of(command_string),
                                   command_string, profile, scanner, <<>>),
                    profile, got)

\* bash_security_hook with the fallback profile of lines 834-835 stored in
\* the cache slot for the path it was substituted for
hook_with_profile_storing_fallback(command_string, scanner, got) ==
    gate_checks(command_string,
                IF got.raised THEN BaseOnlyProfile ELSE got.profile,
                scanner,
                IF got.raised
                THEN [got EXCEPT !.cp = BaseOnlyProfile,
                                 !.cd = got.project_dir]
                ELSE got,
                commands_of(command_string),
                [kind |-> "parse", command |-> command_string])

\* bash_security_hook once get_security_profile has returned or raised
hook_with_profile(command_string, scanner, got) ==
    gate_checks(command_string,
                IF got.raised THEN BaseOnlyProfile ELSE got.profile,
                scanner, got, commands_of(command_string),
                [kind |-> "parse", command |-> command_string])

bash_security_hook(tool_name, command_string, cwd, cp, cd, n, builder, scanner) ==
    IF tool_name # "Bash" \/ command_string = <<>>
    THEN GateResult([outcome |-> "Allow", reason |-> NoReason, log |-> <<>>],
                    None, NotResolved(cp, cd, n))
    ELSE hook_with_profile(command_string, scanner,
                           get_security_profile(cwd, cp, cd, n, builder))

\* validate_command once get_security_profile has returned or raised
validate_with_profile(command_string, scanner, got) ==
    IF got.raised
    THEN GateResult([outcome |-> "Raise", reason |-> [kind |-> "builder"],
                     log |-> <<>>], None, got)
    ELSE gate_checks(command_string, got.profile, scanner, got,
                     commands_of(command_string), [kind |-> "parse"])

validate_command(command_string, project_dir, cp, cd, n, builder, scanner) ==
    validate_with_profile(command_string, scanner,
                          get_security_profile(project_dir, cp, cd, n,
                                               builder))

(***************************************************************************)
(* Inputs of a gate call                                                   *)
(***************************************************************************)
ToolNames == {"Bash", "Write"}

BuilderBehaviours == {"returns", "raises"}

ScannerUnused == [import |-> "unused", list |-> "unused", staged |-> <<>>,
                  scan |-> "unused", matches |-> <<>>]

NoCall == [entry |-> "none", tool_name |-> "none", project_dir |-> None,
           builder |-> "unused", built |-> FALSE, profile |-> None,
           scanner |-> ScannerUnused, outcome |-> "none",
           reason |-> NoReason, log |-> <<>>]

Consulted(log) == \E j \in 1..Len(log) : log[j].ev = "scanner"

\* the scanner behaviours gate calls are driven with: every way the scanner
\* can fail, and scans that return at most one match (validate_git_commit
\* is driven with longer scans on its own)
GateScannerBehaviours == {b \in ScannerBehaviours : Len(b.matches) <= 1}

(***************************************************************************)
(* Gate calls made one at a time                                           *)
(***************************************************************************)
MaxCalls == 1

Evaluate(entry, tool_name, cwd, builder, scanner) ==
    IF entry = "bash_security_hook"
    THEN bash_security_hook(tool_name, command, cwd, _cached_profile,
                            _cached_project_dir, builds, builder, scanner)
    ELSE validate_command(command, cwd, _cached_profile,
                          _cached_project_dir, builds, builder, scanner)

\* the record of a gate call that returned r
CallRecord(entry, tool_name, builder, scanner, r) ==
    [entry |-> entry, tool_name |-> tool_name,
     project_dir |-> r.got.project_dir,
     builder |-> IF r.got.built THEN builder ELSE "unused",
     built |-> r.got.built,
     profile |-> r.profile,
     scanner |-> IF Consulted(r.log) THEN scanner ELSE ScannerUnused,
     outcome |-> r.outcome, reason |-> r.reason, log |-> r.log]

\* One call of an entry point.  The collaborators' behaviour is drawn only
\* when the call reaches them: the builder on a cache miss, the scanner
\* when validate_git_commit imports it.
GateCall(entry, tool_name, cwd) ==
    /\ budget > 0
    /\ call = NoCall
    /\ \E builder \in BuilderBehaviours :
       \E probe \in {Evaluate(entry, tool_name, cwd, builder, ScannerAbsent)} :
         /\ builder = "raises" => probe.got.built
         /\ \E scanner \in IF Consulted(probe.log)
                           THEN GateScannerBehaviours ELSE {ScannerAbsent} :
            \E r \in {IF scanner = ScannerAbsent THEN probe
                      ELSE Evaluate(entry, tool_name, cwd, builder, scanner)} :
              /\ call' = CallRecord(entry, tool_name, builder, scanner, r)
              /\ _cached_profile' = r.got.cp
              /\ _cached_project_dir' = r.got.cd
              /\ builds' = r.got.builds
    /\ budget' = budget - 1
    /\ UNCHANGED <<command, hist, threads>>

\* the working directories gate calls are made from
WorkingDirs == {<<"/", "proj", "a">>, <<"/", "proj", "b">>}

BashSecurityHook ==
    \E tool_name \in ToolNames, cwd \in WorkingDirs :
        GateCall("bash_security_hook", tool_name, cwd)

ValidateCommand ==
    \E project_dir \in WorkingDirs :
        GateCall("validate_command", "Bash", project_dir)

Init ==
    /\ command \in Commands
    /\ budget = MaxCalls
    /\ _cached_profile = None
    /\ _cached_project_dir = None
    /\ builds = 0
    /\ call = NoCall
    /\ hist = <<>>
    /\ threads = <<>>

\* the caller takes the verdict of the call that ended
Return ==
    /\ call # NoCall
    /\ call' = NoCall
    /\ UNCHANGED <<command, budget, _cached_profile, _cached_project_dir,
                   builds, hist, threads>>

Next == BashSecurityHook \/ ValidateCommand \/ Return

Spec == Init /\ [][Next]_vars

(***************************************************************************)
(* The profile cache driven directly: get_security_profile and             *)
(* reset_profile_cache called one at a time.  hist keeps every call with   *)
(* what it returned.                                                       *)
(***************************************************************************)
MaxOps == 4

ResolveEvent(raw_dir, got) ==
    [op |-> "resolve", raw_dir |-> raw_dir, built |-> got.built,
     raised |-> got.raised, profile |-> got.profile]

ResetEvent ==
    [op |-> "reset", raw_dir |-> <<>>, built |-> FALSE, raised |-> FALSE,
     profile |-> None]

GetSecurityProfile ==
    /\ budget > 0
    /\ \E raw_dir \in RawPaths, builder \in BuilderBehaviours :
       \E got \in {get_security_profile(raw_dir, _cached_profile,
                                        _cached_project_dir, builds,
                                        builder)} :
         /\ builder = "raises" => got.built
         /\ _cached_profile' = got.cp
         /\ _cached_project_dir' = got.cd
         /\ builds' = got.builds
         /\ hist' = Append(hist, ResolveEvent(raw_dir, got))
    /\ budget' = budget - 1
    /\ UNCHANGED <<command, call, threads>>

\* reset_profile_cache()
ResetProfileCache ==
    /\ budget > 0
    /\ _cached_profile' = None
    /\ _cached_project_dir' = None
    /\ hist' = Append(hist, ResetEvent)
    /\ budget' = budget - 1
    /\ UNCHANGED <<command, builds, call, threads>>

InitCache ==
    /\ command = <<>>
    /\ budget = MaxOps
    /\ _cached_profile = None
    /\ _cached_project_dir = None
    /\ builds = 0
    /\ call = NoCall
    /\ hist = <<>>
    /\ threads = <<>>

NextCache == GetSecurityProfile \/ ResetProfileCache

SpecCache == InitCache /\ [][NextCache]_vars

(***************************************************************************)
(* The profile cache under concurrent callers.  Each thread makes one      *)
(* call, of get_security_profile or of reset_profile_cache, and may be     *)
(* pre-empted between any two reads or writes of the module globals; pc    *)
(* is the source line the thread is about to run.                          *)
(***************************************************************************)
NumThreads == 2

Threads == 1..NumThreads

Idle == [pc |-> "idle", project_dir |-> None, built |-> None,
         result |-> None]

\* line 54: project_dir = Path(project_dir).resolve()
T_Call(t) ==
    /\ threads[t].pc = "idle"
    /\ \E raw_dir \in RawPaths :
         threads' = [threads EXCEPT ![t] = [Idle EXCEPT
                        !.pc = "l57_profile",
                        !.project_dir = resolve(raw_dir)]]
    /\ UNCHANGED <<command, budget, _cached_profile, _cached_project_dir,
                   builds, call, hist>>

\* line 57, left operand: _cached_profile is not None
T_CheckProfile(t) ==
    /\ threads[t].pc = "l57_profile"
    /\ threads' = [threads EXCEPT ![t].pc =
                      IF _cached_profile # None THEN "l57_dir" ELSE "l61_call"]
    /\ UNCHANGED <<command, budget, _cached_profile, _cached_project_dir,
                   builds, call, hist>>

\* line 57, right operand: _cached_project_dir == project_dir
T_CheckDir(t) ==
    /\ threads[t].pc = "l57_dir"
    /\ threads' = [threads EXCEPT ![t].pc =
                      IF /\ _cached_project_dir # None
                         /\ _cached_project_dir = threads[t].project_dir
                      THEN "l58" ELSE "l61_call"]
    /\ UNCHANGED <<command, budget, _cached_profile, _cached_project_dir,
                   builds, call, hist>>

\* line 58: return _cached_profile
T_ReturnCached(t) ==
    /\ threads[t].pc = "l58"
    /\ threads' = [threads EXCEPT ![t].pc = "returned",
                                  ![t].result = _cached_profile]
    /\ UNCHANGED <<command, budget, _cached_profile, _cached_project_dir,
                   builds, call, hist>>

\* line 61, right-hand side: get_or_create_profile(project_dir, spec_dir)
T_Build(t) ==
    /\ threads[t].pc = "l61_call"
    /\ \E builder \in BuilderBehaviours :
         IF builder = "raises"
         THEN /\ threads' = [threads EXCEPT ![t].pc = "raised"]
              /\ UNCHANGED builds
         ELSE /\ threads' = [threads EXCEPT
                    ![t].pc = "l61_store",
                    ![t].built = get_or_create_profile(threads[t].project_dir,
                                                       builds + 1)]
              /\ builds' = builds + 1
    /\ UNCHANGED <<command, budget, _cached_profile, _cached_project_dir,
                   call, hist>>

\* line 61, the assignment to _cached_profile
T_StoreProfile(t) ==
    /\ threads[t].pc = "l61_store"
    /\ _cached_profile' = threads[t].built
    /\ threads' = [threads EXCEPT ![t].pc = "l62"]
    /\ UNCHANGED <<command, budget, _cached_project_dir, builds, call, hist>>

\* line 62: _cached_project_dir = project_dir
T_StoreDir(t) ==
    /\ threads[t].pc = "l62"
    /\ _cached_project_dir' = threads[t].project_dir
    /\ threads' = [threads EXCEPT ![t].pc = "l64"]
    /\ UNCHANGED <<command, budget, _cached_profile, builds, call, hist>>

\* line 64: return _cached_profile
T_Return(t) ==
    /\ threads[t].pc = "l64"
    /\ threads' = [threads EXCEPT ![t].pc = "returned",
                                  ![t].result = _cached_profile]
    /\ UNCHANGED <<command, budget, _cached_profile, _cached_project_dir,
                   builds, call, hist>>

\* a thread enters reset_profile_cache
R_Call(t) ==
    /\ threads[t].pc = "idle"
    /\ threads' = [threads EXCEPT ![t].pc = "l70"]
    /\ UNCHANGED <<command, budget, _cached_profile, _cached_project_dir,
                   builds, call, hist>>

\* line 70: _cached_profile = None
R_ClearProfile(t) ==
    /\ threads[t].pc = "l70"
    /\ _cached_profile' = None
    /\ threads' = [threads EXCEPT ![t].pc = "l71"]
    /\ UNCHANGED <<command, budget, _cached_project_dir, builds, call, hist>>

\* line 71: _cached_project_dir = None
R_ClearDir(t) ==
    /\ threads[t].pc = "l71"
    /\ _cached_project_dir' = None
    /\ threads' = [threads EXCEPT ![t].pc = "reset_done"]
    /\ UNCHANGED <<command, budget, _cached_profile, builds, call, hist>>

InitConc ==
    /\ command = <<>>
    /\ budget = 0
    /\ _cached_profile = None
    /\ _cached_project_dir = None
    /\ builds = 0
    /\ call = NoCall
    /\ hist = <<>>
    /\ threads = [t \in Threads |-> Idle]

NextConc ==
    \E t \in Threads :
        \/ T_Call(t)
        \/ T_CheckProfile(t)
        \/ T_CheckDir(t)
        \/ T_ReturnCached(t)
        \/ T_Build(t)
        \/ T_StoreProfile(t)
        \/ T_StoreDir(t)
        \/ T_Return(t)
        \/ R_Call(t)
        \/ R_ClearProfile(t)
        \/ R_ClearDir(t)

SpecConc == InitConc /\ [][NextConc]_vars

(***************************************************************************)
(* The git validator called directly, on one invocation and against one    *)
(* behaviour of the secret scanner.                                        *)
(***************************************************************************)
\* the last one is an unclosed quotation
GitInvocations ==
    {<<"git">>,
     <<"git", " ", "commit">>,
     <<"git", " ", "commit", " ", "-", "m", " ", "x">>,
     <<"git", " ", " ", "commit">>,
     <<"git", " ", "'", "commit", "'">>,
     <<"git", " ", "status">>,
     <<"git", " ", "commit", "-", "tree">>,
     <<"git", " ", "add", " ", "commit">>,
     <<"git", " ", "-", "c", " ", "commit">>,
     <<"/", "bin", "/", "git", " ", "commit">>,
     <<"git", " ", "'", "commit">>}

\* validate_git_commit(command) with the scanner behaving as drawn
ValidateGitCommit ==
    /\ call = NoCall
    /\ \E scanner \in ScannerBehaviours :
       \E r \in {validate_git_commit(command, scanner)} :
         call' = [NoCall EXCEPT
                    !.entry = "validate_git_commit",
                    !.scanner = scanner,
                    !.outcome = IF r.raised THEN "Raise"
                                ELSE IF r.ok THEN "Allow" ELSE "Block",
                    !.reason = r.reason,
                    !.log = ScannerEvents(r.events, 1)]
    /\ UNCHANGED <<command, budget, _cached_profile, _cached_project_dir,
                   builds, hist, threads>>

InitGit ==
    /\ command \in GitInvocations
    /\ budget = 0
    /\ _cached_profile = None
    /\ _cached_project_dir = None
    /\ builds = 0
    /\ call = NoCall
    /\ hist = <<>>
    /\ threads = <<>>

NextGit == ValidateGitCommit

SpecGit == InitGit /\ [][NextGit]_vars

(***************************************************************************)
(* validate_rm_command on its own (SpecRm): rm invocations with up to      *)
(* MaxArgs arguments, each a flag, a quoted or bare dangerous target, or   *)
(* an ordinary path.                                                       *)
(***************************************************************************)
MaxArgs == 2

RmArgs ==
    {<<"-", "rf">>, <<"-", "-">>, <<"-">>,
     <<"/">>, <<".", ".">>, <<"~">>, <<"*">>, <<"/", "*">>,
     <<".", ".", "/", "x">>, <<"/", "etc">>, <<"/", "home">>,
     <<"\"", "/", "\"">>,
     <<"old">>, <<".", "/", "build">>, <<"/", "etc", "/", "passwd">>,
     <<"/", "etc", "/">>, <<"~", "/">>, <<".", ".", ".">>}

ArgLists(args, n) == UNION {[1..k -> args] : k \in 0..n}

RECURSIVE Invoke(_, _, _)
Invoke(text, args, k) ==
    IF k > Len(args) THEN text
    ELSE Invoke(text \o <<" ">> \o args[k], args, k + 1)

RmInvocations ==
    {Invoke(name, args, 1) : name \in {<<"rm">>, <<"/", "bin", "/", "rm">>},
                             args \in ArgLists(RmArgs, MaxArgs)}

\* the record of one direct call of a validator
ValidatorCall(entry, r) ==
    [NoCall EXCEPT !.entry = entry,
                   !.outcome = IF r.ok THEN "Allow" ELSE "Block",
                   !.reason = r.reason]

ValidateRmCommand ==
    /\ call = NoCall
    /\ call' = ValidatorCall("validate_rm_command",
                             validate_rm_command(command))
    /\ UNCHANGED <<command, budget, _cached_profile, _cached_project_dir,
                   builds, hist, threads>>

InitRm ==
    /\ command \in RmInvocations
    /\ budget = 0
    /\ _cached_profile = None
    /\ _cached_project_dir = None
    /\ builds = 0
    /\ call = NoCall
    /\ hist = <<>>
    /\ threads = <<>>

NextRm == ValidateRmCommand

SpecRm == InitRm /\ [][NextRm]_vars

(***************************************************************************)
(* The SQL validators on their own (SpecSql): psql with '-c' options,      *)
(* mysql and mariadb with '-e' and '--execute' options, up to MaxArgs      *)
(* options each, attached or followed by their SQL.                        *)
(***************************************************************************)
SqlTexts ==
    {<<"SELECT", " ", "1">>,
     <<"DROP", " ", "TABLE", " ", "users">>,
     <<"drop", " ", " ", "table", " ", "users", ";">>,
     <<"DELETE", " ", "FROM", " ", "users">>,
     <<"DELETE", " ", "FROM", " ", "users", " ", "WHERE", " ", "id">>,
     <<"TRUNCATE", " ", "users">>}

Quoted(sql) == <<"\"">> \o sql \o <<"\"">>

PsqlArgs ==
    {<<"-", "c", " ">> \o Quoted(sql) : sql \in SqlTexts}
    \cup {<<"-", "c">> \o Quoted(sql) : sql \in SqlTexts}
    \cup {<<"-", "d", " ", "app">>}

MysqlArgs ==
    {<<"-", "e", " ">> \o Quoted(sql) : sql \in SqlTexts}
    \cup {<<"-", "e">> \o Quoted(sql) : sql \in SqlTexts}
    \cup {<<"-", "-", "execute", " ">> \o Quoted(sql) : sql \in SqlTexts}
    \cup {<<"-", "-", "execute", "=">> \o Quoted(sql) : sql \in SqlTexts}
    \cup {<<"app">>}

SqlInvocations ==
    {Invoke(<<"psql">>, args, 1) : args \in ArgLists(PsqlArgs, MaxArgs)}
    \cup {Invoke(name, args, 1) : name \in {<<"mysql">>, <<"mariadb">>},
                                  args \in ArgLists(MysqlArgs, MaxArgs)}

ValidatePsqlCommand ==
    /\ call = NoCall
    /\ command[1] = "psql"
    /\ call' = ValidatorCall("validate_psql_command",
                             validate_psql_command(command))
    /\ UNCHANGED <<command, budget, _cached_profile, _cached_project_dir,
                   builds, hist, threads>>

ValidateMysqlCommand ==
    /\ call = NoCall
    /\ command[1] \in {"mysql", "mariadb"}
    /\ call' = ValidatorCall("validate_mysql_command",
                             validate_mysql_command(command))
    /\ UNCHANGED <<command, budget, _cached_profile, _cached_project_dir,
                   builds, hist, threads>>

InitSql ==
    /\ command \in SqlInvocations
    /\ budget = 0
    /\ _cached_profile = None
    /\ _cached_project_dir = None
    /\ builds = 0
    /\ call = NoCall
    /\ hist = <<>>
    /\ threads = <<>>

NextSql == ValidatePsqlCommand \/ ValidateMysqlCommand

SpecSql == InitSql /\ [][NextSql]_vars

(***************************************************************************)
(* The gate driven with dropdb and chmod command strings (SpecOps): single *)
(* invocations, and invocations followed by another command in a pipeline  *)
(* or a '&' background list.                                               *)
(***************************************************************************)
OpInvocations ==
    {<<"dropdb">>,
     <<"dropdb", " ", "production">>,
     <<"dropdb", " ", "test", "_", "x">>,
     <<"dropdb", " ", "x", "_", "test">>,
     <<"dropdb", " ", "-", "e", " ", "production">>,
     <<"dropdb", " ", "-", "h", " ", "production">>,
     <<"dropdb", " ", "-", "h", " ", "db1", " ", "TEST", "_", "x">>,
     <<"chmod">>,
     <<"chmod", " ", "+", "x">>,
     <<"chmod", " ", "+", "x", " ", "f">>,
     <<"chmod", " ", "755", " ", "f">>,
     <<"chmod", " ", "777", " ", "f">>,
     <<"chmod", " ", "-", "R", " ", "ug", "+", "x", " ", "f">>,
     <<"chmod", " ", "-", "v", " ", "+", "x", " ", "f">>,
     <<"chmod", " ", "u", "+", "x", ",", "g", "+", "x", " ", "f">>}

OpFollowers ==
    {<<"tee", " ", "test", "_", "log">>, <<"echo", " ", "test">>,
     <<"chmod", " ", "777", " ", "g">>, <<"chmod", " ", "+", "x", " ", "g">>}

OpCommands ==
    OpInvocations
    \cup {a \o sep \o b : a \in OpInvocations,
                          sep \in {<<" ", "|", " ">>, <<" ", "&", " ">>},
                          b \in OpFollowers}

InitOps ==
    /\ command \in OpCommands
    /\ budget = MaxCalls
    /\ _cached_profile = None
    /\ _cached_project_dir = None
    /\ builds = 0
    /\ call = NoCall
    /\ hist = <<>>
    /\ threads = <<>>

SpecOps == InitOps /\ [][Next]_vars

(***************************************************************************)
(* Gate calls one after another on one command string (SpecSeq): up to     *)
(* MaxSeqCalls calls from either project, the builder returning or raising *)
(* in each.                                                                *)
(***************************************************************************)
MaxSeqCalls == 3

SeqCommands == {<<"ls">>, <<"npm">>, <<"rm", " ", "old">>}

InitSeq ==
    /\ command \in SeqCommands
    /\ budget = MaxSeqCalls
    /\ _cached_profile = None
    /\ _cached_project_dir = None
    /\ builds = 0
    /\ call = NoCall
    /\ hist = <<>>
    /\ threads = <<>>

SpecSeq == InitSeq /\ [][Next]_vars

(***************************************************************************)
(* Properties of gate calls (Spec)                                         *)
(***************************************************************************)
\* a gate call on a Bash tool invocation has ended
BashCall == call # NoCall /\ call.tool_name = "Bash"

\* some ';'-delimited segment of extract_commands fails shlex.split
FailsTokenization(c) ==
    LET pieces == re_split("semicolon", c, 1, 1) IN
    \E k \in 1..Len(pieces) :
        /\ Strip(pieces[k]) # <<>>
        /\ ~shlex_split(Strip(pieces[k])).ok

\* C1: for every command string in which a ';'-delimited segment fails
\* tokenization, extract_commands returns the empty list and both entry
\* points return Block.
C1_TokenizationFailureBlocks ==
    (BashCall /\ FailsTokenization(command)) =>
        /\ commands_of(command) = <<>>
        /\ call.outcome = "Block"

\* C1, for the calls that have a profile to check against (the builder
\* returned, the cache was hit, or the hook fell back): the malformed
\* command is blocked as unparseable.
C1_BlocksWithProfile ==
    (BashCall /\ FailsTokenization(command)) =>
        /\ commands_of(command) = <<>>
        /\ call.outcome # "Allow"
        /\ call.profile # None =>
              (call.outcome = "Block" /\ call.reason.kind = "parse")

\* C1: validate_command is called with a command that has a well-formed
\* and a malformed segment, the builder raises, and no verdict comes back.
C1_Witness ==
    /\ call.entry = "validate_command"
    /\ FailsTokenization(command)
    /\ Len(re_split("semicolon", command, 1, 1)) > 1
    /\ call.builder = "raises"
    /\ call.outcome = "Raise"

\* some extracted command is outside the profile's permitted union
Unlisted(cmds, profile) ==
    \E k \in 1..Len(cmds) : cmds[k] \notin get_all_allowed_commands(profile)

\* C2: whenever a command extracted from the string is not in the union of
\* the profile's tiers, the gate returns Block, whatever the other commands
\* are and whatever the deep validators do.
C2_UnlistedCommandBlocks ==
    (BashCall /\ call.profile # None
        /\ Unlisted(commands_of(command), call.profile))
        => call.outcome = "Block"

\* C2, as far as it goes: a string with an unlisted command is never
\* allowed.
C2_UnlistedNeverAllowed ==
    (BashCall /\ call.profile # None
        /\ Unlisted(commands_of(command), call.profile))
        => call.outcome # "Allow"

\* C2: an unlisted command follows 'git commit', the scanner raises while
\* the commit is validated, and the call ends without a verdict.
C2_Witness ==
    /\ BashCall
    /\ call.profile # None
    /\ Unlisted(commands_of(command), call.profile)
    /\ call.outcome = "Raise"
    /\ call.reason.kind = "scanner"

\* the separators that chain two commands at top level
ChainSeparators ==
    {<<" ", "&", "&", " ">>, <<" ", "|", "|", " ">>, <<";">>,
     <<" ", ";", " ">>}

\* every command of A is permitted and passes its own deep validator
Passes(A, profile, scanner) ==
    /\ commands_of(A) # <<>>
    /\ check_commands(commands_of(A), 1, segments_of(A), A, profile,
                      scanner, <<>>).outcome = "Allow"

\* B is one invocation, of a permitted command, that its validator rejects
Rejected(B, profile, scanner) ==
    /\ Len(commands_of(B)) = 1
    /\ commands_of(B)[1] \in VALIDATORS
    /\ commands_of(B)[1] \in get_all_allowed_commands(profile)
    /\ ~RunValidator(commands_of(B)[1], B, scanner).ok
    /\ ~RunValidator(commands_of(B)[1], B, scanner).raised

\* the command is A, a chaining separator, B, with A passing and B rejected
PassingThenRejected(A, B) ==
    /\ \E sep \in ChainSeparators : command = A \o sep \o B
    /\ Passes(A, call.profile, call.scanner)
    /\ Rejected(B, call.profile, call.scanner)

\* C3: a chained command 'A && B' (or '||', or ';') in which A passes and B
\* is rejected by its validator is blocked, also when A invokes the same
\* command name as B.
C3_ChainedRejectionBlocks ==
    (BashCall /\ call.profile # None) =>
        \A A \in Invocations, B \in Invocations :
            PassingThenRejected(A, B) => call.outcome = "Block"

\* C3, when A does not invoke the command that B invokes.
C3_BlocksWhenNamesDiffer ==
    (BashCall /\ call.profile # None) =>
        \A A \in Invocations, B \in Invocations :
            (PassingThenRejected(A, B)
                /\ ~IsIn(commands_of(B)[1], commands_of(A)))
                => call.outcome = "Block"

\* C3: 'rm old && rm /' is allowed where rm is permitted.
C3_Witness ==
    /\ command = <<"rm", " ", "old", " ", "&", "&", " ", "rm", " ", "/">>
    /\ BashCall
    /\ call.profile # None
    /\ <<"rm">> \in get_all_allowed_commands(call.profile)
    /\ call.outcome = "Allow"

\* C4: when the builder raises during a gate call, the call goes on with a
\* profile that permits exactly the base commands and returns a verdict.
C4_BuilderFailureFallsBack ==
    (BashCall /\ call.builder = "raises") =>
        /\ call.profile = BaseOnlyProfile
        /\ call.outcome \in {"Allow", "Block"}

\* C4, for bash_security_hook alone: the builder's exception is caught and
\* the checks run against the base commands.
C4_HookFallsBack ==
    (BashCall /\ call.builder = "raises"
        /\ call.entry = "bash_security_hook") =>
        /\ call.profile = BaseOnlyProfile
        /\ call.reason.kind # "builder"
        /\ Unlisted(commands_of(command), BaseOnlyProfile)
              => call.outcome # "Allow"

\* C4: validate_command is called for a base command, the builder raises,
\* and the exception leaves validate_command.
C4_Witness ==
    /\ call.entry = "validate_command"
    /\ command = <<"ls">>
    /\ call.builder = "raises"
    /\ call.outcome = "Raise"
    /\ call.reason.kind = "builder"

\* C5: every gate call ends with exactly one verdict, Allow or Block with a
\* reason, and never with an exception, whatever the builder and the
\* scanner do.
C5_AlwaysOneVerdict ==
    call # NoCall =>
        \/ call.outcome = "Allow"
        \/ (call.outcome = "Block" /\ call.reason # NoReason)

\* C5: the hook validates 'git commit', the scanner raises while listing
\* or scanning the staged files, and the exception leaves the hook.
C5_Witness ==
    /\ call.entry = "bash_security_hook"
    /\ command = <<"git", " ", "commit">>
    /\ call.scanner.import = "ok"
    /\ (call.scanner.list = "raises" \/ call.scanner.scan = "raises")
    /\ call.outcome = "Raise"

\* C8: a validator, and the scanner behind it, runs for the k-th command
\* only after the allowlist check of that command has allowed it in the
\* same call, and never for a command outside the permitted union.
C8_ValidatorAfterAllowlist ==
    BashCall =>
        \A j \in 1..Len(call.log) :
            call.log[j].ev \in {"validator", "scanner"} =>
                /\ \E i \in 1..(j - 1) :
                     /\ call.log[i].ev = "allowlist"
                     /\ call.log[i].k = call.log[j].k
                     /\ call.log[i].ok
                     /\ call.log[i].cmd = commands_of(command)[call.log[j].k]
                /\ commands_of(command)[call.log[j].k]
                       \in get_all_allowed_commands(call.profile)

\* C8: a call in which the scanner ran behind 'git commit', and one command
\* of the string is outside the permitted union.
C8_Witness ==
    /\ BashCall
    /\ call.profile # None
    /\ Consulted(call.log)
    /\ Unlisted(commands_of(command), call.profile)

RECURSIVE ChecksOf(_, _)
\* the allowlist checks and validator runs of a log, in the order they ran
ChecksOf(log, j) ==
    IF j > Len(log) THEN <<>>
    ELSE (IF log[j].ev = "scanner" THEN <<>> ELSE <<log[j]>>)
         \o ChecksOf(log, j + 1)

RECURSIVE DueChecks(_, _)
\* the checks of C9 in its order: command by command, left to right, the
\* allowlist check and then the validator of the command, if it has one
DueChecks(cmds, k) ==
    IF k > Len(cmds) THEN <<>>
    ELSE <<[ev |-> "allowlist", k |-> k]>>
         \o (IF cmds[k] \in VALIDATORS
             THEN <<[ev |-> "validator", k |-> k]>> ELSE <<>>)
         \o DueChecks(cmds, k + 1)

\* the check e did not pass
CheckFails(e, profile, scanner) ==
    IF e.ev = "allowlist"
    THEN ~is_command_allowed(e.cmd, profile).ok
    ELSE ~RunValidator(e.cmd, e.segment, scanner).ok

CheckReason(e, profile, scanner) ==
    IF e.ev = "allowlist"
    THEN is_command_allowed(e.cmd, profile).reason
    ELSE RunValidator(e.cmd, e.segment, scanner).reason

\* the checks that ran are the first checks due, all passed but possibly
\* the last, and the verdict is Block with the reason of that last check
\* when it failed, Allow when every check due ran and passed
FirstFailureDecides(cmds, run, due, profile, scanner) ==
    /\ Len(run) <= Len(due)
    /\ \A i \in 1..Len(run) :
         /\ run[i].ev = due[i].ev
         /\ run[i].k = due[i].k
         /\ run[i].cmd = cmds[run[i].k]
    /\ \A i \in 1..(Len(run) - 1) : ~CheckFails(run[i], profile, scanner)
    /\ IF run # <<>> /\ CheckFails(run[Len(run)], profile, scanner)
       THEN /\ call.outcome = "Block"
            /\ call.reason = CheckReason(run[Len(run)], profile, scanner)
       ELSE /\ call.outcome = "Allow"
            /\ Len(run) = Len(due)

\* C9: the commands are checked left to right as extracted, the allowlist
\* check of a command before its validator and before any check of a later
\* command; the verdict is Block with the reason of the first check that
\* fails, no later check being run, and Allow exactly when no check fails.
C9_FirstFailureWins ==
    (BashCall /\ call.profile # None /\ commands_of(command) # <<>>) =>
        FirstFailureDecides(commands_of(command), ChecksOf(call.log, 1),
                            DueChecks(commands_of(command), 1),
                            call.profile, call.scanner)

\* C9, for the calls in which every validator that ran returned.
C9_FirstFailureWinsWhenChecksReturn ==
    (BashCall /\ call.profile # None /\ commands_of(command) # <<>>
        /\ call.outcome # "Raise") =>
        FirstFailureDecides(commands_of(command), ChecksOf(call.log, 1),
                            DueChecks(commands_of(command), 1),
                            call.profile, call.scanner)

\* C9: the first command passes its allowlist check and its validator
\* raises: the call ends with neither Block nor Allow.
C9_Witness ==
    /\ BashCall
    /\ call.outcome = "Raise"
    /\ Len(call.log) >= 3
    /\ call.log[1].ev = "allowlist"
    /\ call.log[1].ok
    /\ call.log[2].ev = "validator"
    /\ call.log[3].ev = "scanner"

(***************************************************************************)
(* Properties of the profile cache (SpecCache, SpecConc)                   *)
(***************************************************************************)
RECURSIVE LastBuild(_, _)
\* the most recent successful build among the first n calls of h that no
\* reset has followed, None if there is none
LastBuild(h, n) ==
    IF n = 0 THEN None
    ELSE IF h[n].op = "reset" THEN None
    ELSE IF h[n].built /\ ~h[n].raised
    THEN [project_dir |-> resolve(h[n].raw_dir), profile |-> h[n].profile]
    ELSE LastBuild(h, n - 1)

\* the n-th call of h returned a profile that no earlier call returned
Fresh(h, n) ==
    \A j \in 1..(n - 1) :
        (h[j].op = "resolve" /\ ~h[j].raised) =>
            h[j].profile.id # h[n].profile.id

\* the n-th call of h, a resolve, did what C6 says
ResolvedByContract(h, n, prior) ==
    IF prior # None /\ prior.project_dir = resolve(h[n].raw_dir)
    THEN /\ ~h[n].built
         /\ ~h[n].raised
         /\ h[n].profile = prior.profile
    ELSE /\ h[n].built
         /\ ~h[n].raised =>
              /\ Fresh(h, n)
              /\ h[n].profile =
                   get_or_create_profile(resolve(h[n].raw_dir),
                                         h[n].profile.id)

\* the slot holds the last successful build that no reset has followed
SlotHolds(last) ==
    IF last = None
    THEN _cached_profile = None
    ELSE /\ _cached_profile = last.profile
         /\ _cached_project_dir = last.project_dir

\* C6: in a sequence of resolve and reset calls run one at a time, a
\* resolve returns the stored instance without a build exactly when the
\* most recent successful build since the last reset was for the same
\* canonical path; otherwise it invokes the builder once and, the builder
\* returning, the slot holds the new profile under that path and the new
\* profile is returned.
C6_CacheContract ==
    /\ \A n \in 1..Len(hist) :
         hist[n].op = "resolve" =>
             ResolvedByContract(hist, n, LastBuild(hist, n - 1))
    /\ SlotHolds(LastBuild(hist, Len(hist)))
    /\ builds = Cardinality({n \in 1..Len(hist) :
                                hist[n].built /\ ~hist[n].raised})

\* C6: a build, a hit through another spelling of the same path, a reset,
\* and a rebuild of the same path.
C6_Witness ==
    /\ Len(hist) = 4
    /\ hist[1].built /\ ~hist[1].raised
    /\ hist[2].op = "resolve" /\ ~hist[2].built
    /\ hist[2].raw_dir # hist[1].raw_dir
    /\ hist[3].op = "reset"
    /\ hist[4].built /\ ~hist[4].raised
    /\ resolve(hist[4].raw_dir) = resolve(hist[1].raw_dir)
    /\ hist[4].profile # hist[1].profile

\* every thread that has started is resolving the canonical path P
AllResolve(P) ==
    \A t \in Threads :
        /\ threads[t].pc \notin {"l70", "l71", "reset_done"}
        /\ threads[t].pc # "idle" => threads[t].project_dir = P

\* C7: when the threads resolve the same canonical path concurrently from
\* an empty cache, the builder is invoked at most once and every thread
\* obtains the same profile instance.
C7_OneBuildOneInstance ==
    \A raw_dir \in RawPaths :
        AllResolve(resolve(raw_dir)) =>
            /\ builds <= 1
            /\ \A t \in Threads, u \in Threads :
                 (threads[t].pc = "returned" /\ threads[u].pc = "returned")
                     => threads[t].result = threads[u].result

\* C7: two threads have resolved the same path, the builder has been
\* invoked twice and they hold different instances.
C7_Witness ==
    /\ \E raw_dir \in RawPaths : AllResolve(resolve(raw_dir))
    /\ builds = 2
    /\ threads[1].pc = "returned"
    /\ threads[2].pc = "returned"
    /\ threads[1].result # threads[2].result

(***************************************************************************)
(* Properties of the git validator (SpecGit)                               *)
(***************************************************************************)
\* the invocation is 'git commit ...': the word after git is commit
IsGitCommit(tokens) ==
    /\ Len(tokens) >= 2
    /\ tokens[1] = <<"git">>
    /\ tokens[2] = <<"commit">>

\* the scanner is unavailable, or lists no staged file, or finds no match
NothingFound(scanner) ==
    \/ scanner.import = "ImportError"
    \/ (scanner.list = "returns" /\ scanner.staged = <<>>)
    \/ (scanner.scan = "returns" /\ scanner.matches = <<>>)

\* the scan returned at least one match
SecretsFound(scanner) ==
    scanner.scan = "returns" /\ scanner.matches # <<>>

\* files lists, once each, every file that has a match
ListsEveryFile(files, matches) ==
    /\ SeqRange(files, 1) = SeqRange(matches, 1)
    /\ Len(files) = Cardinality(SeqRange(files, 1))

RmCall == call.entry = "validate_rm_command"

\* the targets the rm validator is documented to refuse
ListedRmTargets ==
    {<<"/">>, <<".", ".">>, <<"~">>, <<"*">>, <<"/", "*">>,
     <<"/", "home">>, <<"/", "usr">>, <<"/", "etc">>, <<"/", "var">>,
     <<"/", "bin">>, <<"/", "lib">>, <<"/", "opt">>}

BeginsDotDotSlash(token) ==
    Len(token) >= 3 /\ token[1] = "." /\ token[2] = "." /\ token[3] = "/"

RefusedRmArguments(tokens) ==
    {k \in 2..Len(tokens) :
        /\ ~StartsWith(tokens[k], "-")
        /\ (tokens[k] \in ListedRmTargets \/ BeginsDotDotSlash(tokens[k]))}

C11_WitnessAllowed ==
    /\ RmCall
    /\ command = <<"rm", " ", "-", "rf", " ", "/", "etc", "/", "passwd">>
    /\ call.outcome = "Allow"

(***************************************************************************)
(* Properties of the SQL validators (SpecSql)                              *)
(***************************************************************************)
SqlCall ==
    call.entry \in {"validate_psql_command", "validate_mysql_command"}

\* the options that carry inline SQL: '-c' for psql, '-e' and '--execute'
\* for mysql and mariadb
InlineSqlOptions ==
    IF call.entry = "validate_psql_command" THEN {<<"-", "c">>}
    ELSE {<<"-", "e">>, <<"-", "-", "execute">>}

\* every inline SQL text of the command line: the argument that follows an
\* option, the rest of a token that starts with a one-letter option, and
\* what follows '=' in a long option
InlineSql(tokens) ==
    {tokens[k + 1] :
        k \in {k \in 1..(Len(tokens) - 1) : tokens[k] \in InlineSqlOptions}}
    \cup
    {SubSeq(tokens[k], 3, Len(tokens[k])) :
        k \in {k \in 1..Len(tokens) :
                 /\ Len(tokens[k]) > 2
                 /\ tokens[k][2] # "-"
                 /\ SubSeq(tokens[k], 1, 2) \in InlineSqlOptions}}
    \cup
    {SubSeq(tokens[k], 5, Len(tokens[k])) :
        k \in {k \in 1..Len(tokens) :
                 /\ Len(tokens[k]) > 4
                 /\ tokens[k][4] = "="
                 /\ SubSeq(tokens[k], 1, 3) \in InlineSqlOptions}}

\* C12: the psql, mysql and mariadb validators block whenever any inline SQL
\* given with '-c', '-e' or '--execute', attached or as the following
\* argument, matches a destructive-SQL pattern, also when it is in a second
\* or later option; they allow when there is no inline SQL or none matches.
C12_AnyDestructiveInlineSqlBlocks ==
    SqlCall =>
        /\ call.outcome \in {"Allow", "Block"}
        /\ call.outcome = "Block" <=>
             \E sql \in InlineSql(shlex_split(command).tokens) :
                _contains_destructive_sql(sql)

\* psql -c "SELECT 1" -c "DROP TABLE users" : a destructive statement in
\* the second option, and the validator has answered
C12_Witness ==
    /\ SqlCall
    /\ command = <<"psql", " ", "-", "c", " ", "\"", "SELECT", " ", "1", "\"",
                   " ", "-", "c", " ", "\"", "DROP", " ", "TABLE", " ",
                   "users", "\"">>
    /\ call.outcome = "Allow"

\* With a single option that is not of the form --execute=SQL the validators
\* block exactly the destructive SQL.
C12_SingleOptionDecides ==
    SqlCall =>
        LET tokens == shlex_split(command).tokens
            attached == \E k \in 1..Len(tokens) :
                           Len(tokens[k]) > 4 /\ tokens[k][4] = "="
        IN  Cardinality(InlineSql(tokens)) <= 1 /\ ~attached =>
              (call.outcome = "Block" <=>
                 \E sql \in InlineSql(tokens) : _contains_destructive_sql(sql))

(***************************************************************************)
(* Properties of the gate on dropdb and chmod command strings (SpecOps)    *)
(***************************************************************************)
\* the invocations of a segment's token list: the maximal runs of tokens
\* without '|' and '&', as pairs <<first, last>>
InvocationsOf(tokens) ==
    {p \in (1..Len(tokens)) \X (1..Len(tokens)) :
        /\ p[1] <= p[2]
        /\ \A k \in p[1]..p[2] : tokens[k] \notin {<<"|">>, <<"&">>}
        /\ (p[1] = 1 \/ tokens[p[1] - 1] \in {<<"|">>, <<"&">>})
        /\ (p[2] = Len(tokens) \/ tokens[p[2] + 1] \in {<<"|">>, <<"&">>})}

InvocationsNamed(name) ==
    LET tokens == shlex_split(command).tokens IN
    {SubSeq(tokens, p[1], p[2]) :
        p \in {q \in InvocationsOf(tokens) : tokens[q[1]] = name}}

\* the database-name operand of a dropdb invocation has a safe name
HasSafeOperand(invocation) ==
    LET operand == FindDbName(invocation, 2, FALSE, <<>>)
    IN  operand # <<>> /\ _is_safe_database_name(operand)

\* C13: the gate allows a command string that invokes dropdb only if the
\* database-name operand of that invocation (its last non-flag token, the
\* arguments of the connection flags skipped) has a safe name; an unsafe or
\* missing operand is blocked, also when other commands follow the dropdb
\* invocation in the same pipeline or background list.
C13_DropdbAllowedOnlyWithSafeName ==
    BashCall /\ call.outcome = "Allow" =>
        \A invocation \in InvocationsNamed(<<"dropdb">>) :
            HasSafeOperand(invocation)

\* 'dropdb production | tee test_log' has been through the gate in a project
\* that permits dropdb and tee
C13_Witness ==
    /\ BashCall
    /\ command = <<"dropdb", " ", "production", " ", "|", " ",
                   "tee", " ", "test", "_", "log">>
    /\ call.profile # None
    /\ <<"dropdb">> \in get_all_allowed_commands(call.profile)
    /\ call.outcome = "Allow"

\* A dropdb invocation that is the whole command string is allowed only
\* with a safe operand.
C13_LoneDropdbAllowedOnlyWithSafeName ==
    BashCall /\ call.outcome = "Allow"
             /\ Cardinality(InvocationsOf(shlex_split(command).tokens)) = 1 =>
        \A invocation \in InvocationsNamed(<<"dropdb">>) :
            HasSafeOperand(invocation)

\* a chmod invocation as the gate is documented to require it: no flag but
\* -R / --recursive, a mode and a file operand, and a safe mode
IsPermittedChmod(invocation) ==
    LET IsOperand(token) == ~StartsWith(token, "-")
        operands == SelectSeq(Tail(invocation), IsOperand)
    IN  /\ \A k \in 2..Len(invocation) :
              StartsWith(invocation[k], "-") =>
                 invocation[k] \in {<<"-", "R">>, <<"-", "-", "recursive">>}
        /\ Len(operands) >= 2
        /\ (operands[1] \in safe_modes \/ IsPlusX(operands[1]))

\* C14: the gate allows a command string only if every chmod invocation in
\* it uses no flag other than -R / --recursive, has a mode and at least one
\* file operand, and has a mode of the safe set or of the form owner-class
\* letters then '+x'; a chmod with another mode is blocked, also as the
\* second chmod of a pipeline or of a '&' list inside one segment.
C14_EveryChmodPermitted ==
    BashCall /\ call.outcome = "Allow" =>
        \A invocation \in InvocationsNamed(<<"chmod">>) :
            IsPermittedChmod(invocation)

\* 'chmod +x f | chmod 777 g' has been through the gate in a project that
\* permits chmod
C14_Witness ==
    /\ BashCall
    /\ command = <<"chmod", " ", "+", "x", " ", "f", " ", "|", " ",
                   "chmod", " ", "777", " ", "g">>
    /\ call.profile # None
    /\ <<"chmod">> \in get_all_allowed_commands(call.profile)
    /\ call.outcome = "Allow"

\* A chmod invocation that is the whole command string is allowed only in
\* the permitted form.
C14_LoneChmodPermitted ==
    BashCall /\ call.outcome = "Allow"
             /\ Cardinality(InvocationsOf(shlex_split(command).tokens)) = 1 =>
        \A invocation \in InvocationsNamed(<<"chmod">>) :
            IsPermittedChmod(invocation)

(***************************************************************************)
(* Properties of concurrent callers of the cache, continued (SpecConc)     *)
(***************************************************************************)
\* the profile is one that the builder returned for project_dir
BuiltFor(profile, project_dir) ==
    profile = get_or_create_profile(project_dir, profile.id)

\* C15: under every interleaving of concurrent resolve calls for different
\* project paths, with or without resets, a call resolve(P) never returns a
\* profile that was built for a canonical path other than P.
C15_ResolveReturnsOwnPathProfile ==
    \A t \in Threads :
        (threads # <<>> /\ threads[t].pc = "returned"
                        /\ threads[t].result # None) =>
            BuiltFor(threads[t].result, threads[t].project_dir)

\* a caller for /proj/a has returned the profile that another caller built
\* for /proj/b
C15_Witness ==
    /\ threads # <<>>
    /\ \E t \in Threads :
         /\ threads[t].pc = "returned"
         /\ threads[t].project_dir = <<"/", "proj", "a">>
         /\ threads[t].result # None
         /\ BuiltFor(threads[t].result, <<"/", "proj", "b">>)

\* C15, stated on the slot: whenever the cached path and the cached profile
\* are both set, the profile was built for the cached path.
C15_SlotIsConsistent ==
    (_cached_profile # None /\ _cached_project_dir # None) =>
        BuiltFor(_cached_profile, _cached_project_dir)

(***************************************************************************)
(* Properties of the two entry points (Spec)                               *)
(***************************************************************************)
OtherEntry(entry) ==
    IF entry = "bash_security_hook" THEN "validate_command"
    ELSE "bash_security_hook"

\* the gate call that has just ended is the call of its entry point on a
\* Bash command in project_dir with these collaborators
IsCallOf(project_dir, builder, scanner) ==
    /\ call = NoCall /\ call' # NoCall /\ call'.tool_name = "Bash"
    /\ call' = CallRecord(call'.entry, "Bash", builder, scanner,
                          Evaluate(call'.entry, "Bash", project_dir,
                                   builder, scanner))

\* C16: for the same command string, project directory and collaborator
\* behaviour, bash_security_hook (tool Bash) and validate_command return the
\* same allow / block decision, the empty command string and a raising
\* profile builder included.
C16_EntryPointsAgree ==
    [][\A project_dir \in WorkingDirs, builder \in BuilderBehaviours,
          scanner \in GateScannerBehaviours \cup {ScannerAbsent} :
            IsCallOf(project_dir, builder, scanner) =>
                Evaluate(OtherEntry(call'.entry), "Bash", project_dir,
                         builder, scanner).outcome = call'.outcome]_vars

\* the hook has allowed the empty command string, which validate_command
\* blocks from the same cache state in either project
C16_Witness ==
    /\ BashCall
    /\ call.entry = "bash_security_hook"
    /\ command = <<>>
    /\ call.outcome = "Allow"
    /\ \A project_dir \in WorkingDirs :
         validate_command(command, project_dir, _cached_profile,
                          _cached_project_dir, builds, "returns",
                          ScannerAbsent).outcome = "Block"

\* With a command string that is not empty and a builder that returns, the
\* two entry points agree.
C16_EntryPointsAgreeOnCommands ==
    [][\A project_dir \in WorkingDirs,
          scanner \in GateScannerBehaviours \cup {ScannerAbsent} :
            (command # <<>> /\ IsCallOf(project_dir, "returns", scanner)) =>
                Evaluate(OtherEntry(call'.entry), "Bash", project_dir,
                         "returns", scanner).outcome = call'.outcome]_vars

(***************************************************************************)
(* Properties of the cache across gate calls (SpecSeq)                     *)
(***************************************************************************)
\* the cache slot holds an entry for project_dir
SlotHoldsPath(project_dir) ==
    /\ _cached_profile # None
    /\ _cached_project_dir # None
    /\ _cached_project_dir = project_dir

SlotUnchanged ==
    /\ _cached_profile' = _cached_profile
    /\ _cached_project_dir' = _cached_project_dir

\* C17: a resolve call in which the builder raises leaves the cached path
\* and the cached profile as they were, and the base-only profile the hook
\* then checks against is never stored: a gate evaluation for a path the
\* slot does not hold invokes the builder (again, after a failure), and an
\* entry cached for a path is served to a later call for that path without
\* a rebuild, whatever failed for other paths in between.
C17_BuilderFailureLeavesCache ==
    [][(call = NoCall /\ call' # NoCall /\ call'.project_dir # None) =>
         /\ call'.builder = "raises" =>
              /\ ~SlotHoldsPath(call'.project_dir)
              /\ SlotUnchanged
              /\ builds' = builds
              /\ call'.entry = "bash_security_hook" =>
                   call'.profile = BaseOnlyProfile
         /\ _cached_profile' # BaseOnlyProfile
         /\ ~SlotHoldsPath(call'.project_dir) => call'.built
         /\ SlotHoldsPath(call'.project_dir) =>
              /\ ~call'.built
              /\ call'.profile = _cached_profile
              /\ SlotUnchanged
              /\ builds' = builds]_vars

\* the builder has raised in a hook call for one project while the slot
\* holds the entry built for the other project; the hook checked against
\* the base-only profile
C17_Witness ==
    /\ BashCall
    /\ call.entry = "bash_security_hook"
    /\ call.builder = "raises"
    /\ call.profile = BaseOnlyProfile
    /\ call.project_dir = <<"/", "proj", "b">>
    /\ SlotHoldsPath(<<"/", "proj", "a">>)
    /\ builds = 1

====
